---- MODULE Spec2Model ----
(***************************************************************************)
(* A model of the chunked content-persistence core of pimp-my-api-cli:     *)
(*   FileManager   (utils/fileManager.js)   analyzeContent, splitContent,  *)
(*                                          getChunkPath, writeSingleFile, *)
(*                                          writeFile, the cache           *)
(*   ChunkManager  (managers/chunkManager.js) writeContentInChunks and the *)
(*                                          pending-operation table        *)
(*   ErrorHandler  (utils/errorHandler.js)  withRetry, isRetryable,        *)
(*                                          enhanceError                   *)
(*                                                                         *)
(* Strings are kept run-length encoded: a content is a sequence of runs    *)
(* [ch, n] (n >= 1 copies of the UTF-16 code unit ch, adjacent runs of     *)
(* different units), so that contents around CHUNK_SIZE = 50000 are        *)
(* ordinary values.  Every string operation below is the JavaScript one,   *)
(* computed on that encoding.                                              *)
(***************************************************************************)
EXTENDS Integers, Sequences, FiniteSets, TLC

VARIABLES
  fileCache,      \* FileManager.fileCache : path -> {content, timestamp, metadata}
  pendingChunks,  \* ChunkManager.pendingChunks : operationId -> {total, completed, chunks}
  now,            \* Date.now()
  opCounter,      \* number of operation ids generated so far
  calls,          \* per caller: the frame of its writeContentInChunks call
  finalized,      \* history: operationId -> the finalizes carried out for it, each
                  \*   as the set of chunk indices that were recorded at that moment
  redeliveries,   \* history: number of repeated updateChunkProgress calls made
  fm,             \* frame of a direct FileManager call (pure functions)
  rt,             \* frame of an ErrorHandler.withRetry call
  api             \* the latest call of a method made from outside a write:
                  \*   the method, its arguments, its result and the state before it;
                  \*   for writeFile, the frame of the call

vars == <<fileCache, pendingChunks, now, opCounter, calls, finalized, redeliveries,
          fm, rt, api>>

chunkVars == <<fileCache, pendingChunks, now, opCounter, calls, finalized,
               redeliveries, api>>

-----------------------------------------------------------------------------
(* Bounds of the model *)

\* longest content, in runs, handed to the pure functions
MaxRuns == 2
\* largest numChunks handed to splitContent directly
MaxNumChunks == 4

-----------------------------------------------------------------------------
(* Strings *)

\* the code units contents are made of: "a" is one UTF-8 byte, "e2" (an
\* accented letter such as U+00E9) is one code unit and two UTF-8 bytes
Chars == {"a", "e2"}

\* number of bytes TextEncoder.encode produces for one code unit
Utf8Width(ch) == IF ch = "a" THEN 1 ELSE 2

\* run lengths the inputs are built from: short runs and runs around the
\* analyzer's thresholds
RunLens == {1, 2, 3, 25000, 39999, 40000, 40001, 49999, 50000, 50001, 60000}

Run == [ch : Chars, n : RunLens]

IsCanonical(c) == \A k \in 1..(Len(c) - 1) : c[k].ch # c[k + 1].ch

\* every string of at most r runs
RECURSIVE ContentsUpTo(_)
ContentsUpTo(r) ==
  IF r = 0 THEN {<<>>}
  ELSE LET shorter == ContentsUpTo(r - 1)
       IN  shorter \cup
           {Append(c, x) : c \in {d \in shorter : Len(d) = r - 1}, x \in Run}

Contents == {c \in ContentsUpTo(MaxRuns) : IsCanonical(c)}

\* String.prototype.length
RECURSIVE Length(_)
Length(c) == IF c = <<>> THEN 0 ELSE Head(c).n + Length(Tail(c))

\* new TextEncoder().encode(content).length
RECURSIVE ByteLength(_)
ByteLength(c) ==
  IF c = <<>> THEN 0 ELSE Head(c).n * Utf8Width(Head(c).ch) + ByteLength(Tail(c))

\* a + b on strings
StrConcat(a, b) ==
  IF a = <<>> THEN b
  ELSE IF b = <<>> THEN a
  ELSE IF a[Len(a)].ch = b[1].ch
       THEN SubSeq(a, 1, Len(a) - 1)
            \o <<[ch |-> b[1].ch, n |-> a[Len(a)].n + b[1].n]>>
            \o Tail(b)
       ELSE a \o b

\* the string without its first k code units (all of it gone when k >= length)
RECURSIVE StrDrop(_, _)
StrDrop(c, k) ==
  IF c = <<>> \/ k <= 0 THEN c
  ELSE IF Head(c).n <= k THEN StrDrop(Tail(c), k - Head(c).n)
  ELSE <<[ch |-> Head(c).ch, n |-> Head(c).n - k]>> \o Tail(c)

\* the first k code units of the string (all of it when k >= length)
RECURSIVE StrTake(_, _)
StrTake(c, k) ==
  IF c = <<>> \/ k <= 0 THEN <<>>
  ELSE IF Head(c).n <= k THEN <<Head(c)>> \o StrTake(Tail(c), k - Head(c).n)
  ELSE <<[ch |-> Head(c).ch, n |-> k]>>

Min(a, b) == IF a < b THEN a ELSE b
Max(a, b) == IF a > b THEN a ELSE b

\* String.prototype.slice(start, end) for start, end >= 0: both are clamped
\* to the length and an empty string results when start >= end
Slice(c, start, end) ==
  LET len  == Length(c)
      from == Min(start, len)
      to   == Min(end, len)
  IN  IF from >= to THEN <<>> ELSE StrTake(StrDrop(c, from), to - from)

\* Array.prototype.join('') of an array of strings
RECURSIVE Join(_)
Join(strs) == IF strs = <<>> THEN <<>> ELSE StrConcat(Head(strs), Join(Tail(strs)))

\* Math.ceil(a / b) for a >= 0, b > 0
CeilDiv(a, b) == (a + b - 1) \div b

-----------------------------------------------------------------------------
(* FileManager: configuration and pure functions *)

CHUNK_SIZE == 50000
\* WARNING_THRESHOLD = 0.8, kept as the fraction 8 / 10
WARNING_THRESHOLD_NUM == 8
WARNING_THRESHOLD_DEN == 10

\* analyzeContent with inclusive thresholds (>= for >)
analyzeContentInclusive(content) ==
  LET size == ByteLength(content)
  IN  [size             |-> size,
       requiresChunking |-> size >= CHUNK_SIZE,
       chunks           |-> CeilDiv(size, CHUNK_SIZE),
       approachingLimit |-> size * WARNING_THRESHOLD_DEN
                              >= CHUNK_SIZE * WARNING_THRESHOLD_NUM]

\* FileManager.analyzeContent.  Math.ceil(0 / CHUNK_SIZE) is 0.
analyzeContent(content) ==
  LET size == ByteLength(content)
  IN  [size             |-> size,
       requiresChunking |-> size > CHUNK_SIZE,
       chunks           |-> CeilDiv(size, CHUNK_SIZE),
       approachingLimit |-> size * WARNING_THRESHOLD_DEN
                              > CHUNK_SIZE * WARNING_THRESHOLD_NUM]

\* splitContent with Math.floor for Math.ceil
splitContentFloor(content, numChunks) ==
  LET chunkSize == Length(content) \div numChunks
  IN  [k \in 1..numChunks |->
         LET start == (k - 1) * chunkSize
             end   == start + chunkSize
         IN  Slice(content, start, end)]

\* splitContent whose fragments run one code unit into the next fragment
splitContentOverlapping(content, numChunks) ==
  LET chunkSize == CeilDiv(Length(content), numChunks)
  IN  [k \in 1..numChunks |->
         LET start == (k - 1) * chunkSize
             end   == start + chunkSize + 1
         IN  Slice(content, start, end)]

\* FileManager.splitContent, numChunks >= 1
splitContent(content, numChunks) ==
  LET chunkSize == CeilDiv(Length(content), numChunks)
  IN  [k \in 1..numChunks |->
         LET start == (k - 1) * chunkSize
             end   == start + chunkSize
         IN  Slice(content, start, end)]

-----------------------------------------------------------------------------
(* Direct calls of FileManager's pure functions *)

\* analyzeContent(content) called on the FileManager: it only reads
\* this.CHUNK_SIZE and this.WARNING_THRESHOLD and returns a fresh object
AnalyzeContentCall ==
  /\ fm.pc = "ready"
  /\ fm' = [fm EXCEPT !.pc = "analyzed", !.analysis = analyzeContent(fm.content)]
  /\ UNCHANGED <<chunkVars, rt>>

\* splitContent(content, numChunks) called on the FileManager
SplitContentCall ==
  /\ fm.pc = "ready"
  /\ fm' = [fm EXCEPT !.pc = "split",
                      !.fragments = splitContent(fm.content, fm.numChunks)]
  /\ UNCHANGED <<chunkVars, rt>>

\* splitContent(content, analysis.chunks) as writeChunkedFile and
\* handleChunkedWrite call it, on the analysis of a content that requires
\* chunking
SplitAnalyzedContent ==
  /\ fm.pc = "analyzed"
  /\ fm.analysis.requiresChunking
  /\ fm' = [fm EXCEPT !.pc = "fragmented",
                      !.fragments = splitContent(fm.content, fm.analysis.chunks)]
  /\ UNCHANGED <<chunkVars, rt>>

-----------------------------------------------------------------------------
(* Errors (utils/errors.js) and ErrorHandler (utils/errorHandler.js) *)

\* largest maxRetries option given to the constructor
MaxRetriesOption == 4

DEFAULT_MAX_RETRIES == 3
DEFAULT_BASE_DELAY == 1000
DEFAULT_MAX_DELAY == 10000

\* responses of a worker to the fetch of callWorker
WorkerResponses ==
  { [ok |-> TRUE,  status |-> 200, statusText |-> "OK"],
    [ok |-> FALSE, status |-> 503, statusText |-> "Service Unavailable"],
    [ok |-> FALSE, status |-> 500, statusText |-> "Internal Server Error"],
    [ok |-> FALSE, status |-> 404, statusText |-> "Not Found"] }

\* WorkerOrchestrator.callWorker, !response.ok:
\* new WorkerError(`Worker ${workerId} failed: ${response.statusText}`,
\*                 { workerId, status: response.status })
callWorkerFailure(workerId, response) ==
  [class |-> "WorkerError",
   message |-> <<"Worker", workerId, "failed:", response.statusText>>,
   context |-> [workerId |-> workerId, status |-> response.status]]

\* An error object is a record; a property the object does not have is a
\* field the record does not have.  class is the constructor the object was
\* made with (what instanceof tests); messages are kept as tuples of parts.
ThrownErrors ==
  { [class |-> "RetryableError", message |-> <<"rate limited">>],
    [class |-> "RetryableError", message |-> <<"busy">>],
    [class |-> "ValidationError", message |-> <<"invalid name">>,
       details |-> <<"name is required">>],
    callWorkerFailure("w1", [ok |-> FALSE, status |-> 503,
                             statusText |-> "Service Unavailable"]),
    [class |-> "Error", message |-> <<"bad gateway">>, status |-> 502],
    [class |-> "Error", message |-> <<"server error">>, status |-> 500],
    [class |-> "Error", message |-> <<"not found">>, status |-> 404],
    [class |-> "Error", message |-> <<"reset">>, code |-> "ECONNRESET"],
    [class |-> "Error", message |-> <<"timed out">>, code |-> "ETIMEDOUT"],
    [class |-> "Error", message |-> <<"no such file">>, code |-> "ENOENT"],
    [class |-> "Error", message |-> <<"boom">>] }

\* values a successful operation() returns
OperationValues == {"v1", "v2"}

\* the context argument of withRetry (default {}), the one value a caller
\* hands to withRetry besides the operation: nothing, the operation's name,
\* or the name and a cancellation signal that is already raised
Contexts ==
  { <<>>, [operation |-> "writeChunk"],
    [operation |-> "writeChunk", cancelled |-> "true"] }

\* constructor options: a field that is not given is absent from the record
OptionFields == {"maxRetries", "baseDelay", "maxDelay"}
OptionValues(f) ==
  IF f = "maxRetries" THEN (-1)..MaxRetriesOption
  ELSE IF f = "baseDelay" THEN {0, 1000, 3000, 20000}
  ELSE {0, 5000, 10000}
ConstructorOptions ==
  UNION { { o \in [given -> UNION {OptionValues(f) : f \in OptionFields}] :
              \A f \in given : o[f] \in OptionValues(f) }
          : given \in SUBSET OptionFields }

\* options.x || dflt : 0 and undefined are falsy
OrDefault(options, f, dflt) ==
  IF f \in DOMAIN options /\ options[f] # 0 THEN options[f] ELSE dflt

\* ErrorHandler constructor
ErrorHandler(options) ==
  [maxRetries |-> OrDefault(options, "maxRetries", DEFAULT_MAX_RETRIES),
   baseDelay  |-> OrDefault(options, "baseDelay", DEFAULT_BASE_DELAY),
   maxDelay   |-> OrDefault(options, "maxDelay", DEFAULT_MAX_DELAY)]

\* isRetryable that retries whatever it does not recognise (return true last)
isRetryableByDefault(error) ==
  IF error.class = "RetryableError" THEN TRUE
  ELSE IF "status" \in DOMAIN error /\ error.status >= 500 THEN TRUE
  ELSE IF "code" \in DOMAIN error /\ error.code = "ECONNRESET" THEN TRUE
  ELSE IF "code" \in DOMAIN error /\ error.code = "ETIMEDOUT" THEN TRUE
  ELSE TRUE

\* isRetryable with error.status > 500 for error.status >= 500
isRetryableStrictStatus(error) ==
  IF error.class = "RetryableError" THEN TRUE
  ELSE IF error.class = "ValidationError" THEN FALSE
  ELSE IF "status" \in DOMAIN error /\ error.status > 500 THEN TRUE
  ELSE IF "code" \in DOMAIN error /\ error.code = "ECONNRESET" THEN TRUE
  ELSE IF "code" \in DOMAIN error /\ error.code = "ETIMEDOUT" THEN TRUE
  ELSE FALSE

\* ErrorHandler.isRetryable; undefined >= 500 is false
isRetryable(error) ==
  IF error.class = "RetryableError" THEN TRUE
  ELSE IF error.class = "ValidationError" THEN FALSE
  ELSE IF "status" \in DOMAIN error /\ error.status >= 500 THEN TRUE
  ELSE IF "code" \in DOMAIN error /\ error.code = "ECONNRESET" THEN TRUE
  ELSE IF "code" \in DOMAIN error /\ error.code = "ETIMEDOUT" THEN TRUE
  ELSE FALSE

\* enhanceError that assigns context and timestamp to the error it is given
enhanceErrorInPlace(error, context, t) ==
  [f \in DOMAIN error \cup {"context", "timestamp"} |->
     IF f = "context" THEN context
     ELSE IF f = "timestamp" THEN t
     ELSE error[f]]

\* ErrorHandler.enhanceError at time t: a WorkerError is reused, anything
\* else is replaced by new WorkerError(error.message); context and timestamp
\* are then assigned
enhanceError(error, context, t) ==
  LET enhanced == IF error.class = "WorkerError" THEN error
                  ELSE [class |-> "WorkerError", message |-> error.message,
                        context |-> <<>>]
  IN  [f \in DOMAIN enhanced \cup {"context", "timestamp"} |->
         IF f = "context" THEN context
         ELSE IF f = "timestamp" THEN t
         ELSE enhanced[f]]

\* { ...context, finalAttempt: true }
WithFinalAttempt(context) ==
  [f \in DOMAIN context \cup {"finalAttempt"} |->
     IF f = "finalAttempt" THEN "true" ELSE context[f]]

\* new Error(`Operation failed after ${maxRetries} attempts: ${error.message}`)
ExhaustedError(maxRetries, error) ==
  [class |-> "Error",
   message |-> <<"Operation failed after", ToString(maxRetries), "attempts:">>
                 \o error.message]

\* the loop head with attempt < maxRetries for attempt <= maxRetries
LoopHeadStrict(frame, attempt) ==
  IF attempt < frame.handler.maxRetries
    THEN [frame EXCEPT !.pc = "operation", !.attempt = attempt,
                       !.invocations = @ + 1]
    ELSE [frame EXCEPT !.pc = "returned", !.attempt = attempt,
                       !.result = "undefined"]

\* the loop head of withRetry: test attempt <= maxRetries, and either call
\* operation() or fall out of the loop and return undefined
LoopHead(frame, attempt) ==
  IF attempt <= frame.handler.maxRetries
    THEN [frame EXCEPT !.pc = "operation", !.attempt = attempt,
                       !.invocations = @ + 1]
    ELSE [frame EXCEPT !.pc = "returned", !.attempt = attempt,
                       !.result = "undefined"]

\* withRetry(operation, context) is called: lastError is undefined, delay is
\* this.baseDelay, attempt is 1
WithRetry ==
  /\ rt.pc = "ready"
  /\ rt' = LoopHead([rt EXCEPT !.delay = rt.handler.baseDelay], 1)
  /\ UNCHANGED <<chunkVars, fm>>

\* `await operation()` without the return: the loop goes on to the next attempt
OperationReturnsAndGoesOn(v) ==
  /\ rt.pc = "operation"
  /\ rt' = LoopHead([rt EXCEPT !.opValue = v], rt.attempt + 1)
  /\ UNCHANGED <<chunkVars, fm>>

\* operation() resolves: return await operation()
OperationReturns(v) ==
  /\ rt.pc = "operation"
  /\ rt' = [rt EXCEPT !.pc = "returned", !.result = v, !.opValue = v]
  /\ UNCHANGED <<chunkVars, fm>>

\* a catch block whose wait blocks: the delay is spent inside the step and
\* the next attempt begins without the call ever being suspended
CaughtBusyWait(frame, error, t) ==
  LET f1 == [frame EXCEPT !.lastError = error]
  IN  IF ~isRetryable(error)
        THEN [f1 EXCEPT !.pc = "thrown",
                        !.result = enhanceError(error, frame.context, t)]
      ELSE IF frame.attempt = frame.handler.maxRetries
        THEN [f1 EXCEPT !.pc = "thrown",
                        !.result = enhanceError(
                                     ExhaustedError(frame.handler.maxRetries, error),
                                     WithFinalAttempt(frame.context), t)]
      ELSE LoopHead([f1 EXCEPT !.waits = Append(@, frame.delay),
                               !.delay = Min(frame.delay * 2, frame.handler.maxDelay)],
                    frame.attempt + 1)

\* what the catch block does with the error of a failed attempt
Caught(frame, error, t) ==
  LET f1 == [frame EXCEPT !.lastError = error]
  IN  IF ~isRetryable(error)
        THEN [f1 EXCEPT !.pc = "thrown",
                        !.result = enhanceError(error, frame.context, t)]
      ELSE IF frame.attempt = frame.handler.maxRetries
        THEN [f1 EXCEPT !.pc = "thrown",
                        !.result = enhanceError(
                                     ExhaustedError(frame.handler.maxRetries, error),
                                     WithFinalAttempt(frame.context), t)]
      ELSE [f1 EXCEPT !.pc = "sleeping", !.waits = Append(@, frame.delay)]

\* operation() rejects with error
OperationThrows(error) ==
  /\ rt.pc = "operation"
  /\ rt' = Caught(rt, error, now)
  /\ UNCHANGED <<chunkVars, fm>>

\* the operation callWorker hands to withRetry, once the worker has
\* responded: it throws a WorkerError if the response is not ok, and
\* otherwise returns the body of the response
WorkerResponds(workerId, response, body) ==
  /\ rt.pc = "operation"
  /\ rt' = IF response.ok
             THEN [rt EXCEPT !.pc = "returned", !.result = body, !.opValue = body]
             ELSE Caught(rt, callWorkerFailure(workerId, response), now)
  /\ UNCHANGED <<chunkVars, fm>>

\* the delay after a wait of the current delay
NextDelay(delay, maxDelay) == Min(delay * 2, maxDelay)

\* the timer of sleep(delay) fires: delay is doubled up to maxDelay and the
\* loop goes round
SleepEnds ==
  /\ rt.pc = "sleeping"
  /\ now' = now + Max(rt.delay, 0)
  /\ rt' = LoopHead([rt EXCEPT !.delay = NextDelay(rt.delay, rt.handler.maxDelay)],
                    rt.attempt + 1)
  /\ UNCHANGED <<fileCache, pendingChunks, opCounter, calls, finalized,
                 redeliveries, fm, api>>

-----------------------------------------------------------------------------
(* FileManager: paths and the cache *)

\* A path is the sequence of its '.'-separated segments (path.split('.')).
WritePaths == { <<"data", "json">>, <<"notes">> }

\* Array.prototype.join('.') of segments, as segments again: the empty array
\* joins to the empty string, whose only segment is ""
JoinedSegments(parts) == IF parts = <<>> THEN <<"">> ELSE parts

\* getChunkPath that leaves the index out of the name
getChunkPathNoIndex(originalPath, index) ==
  LET ext   == originalPath[Len(originalPath)]
      parts == SubSeq(originalPath, 1, Len(originalPath) - 1)
  IN  JoinedSegments(parts) \o <<"part", ext>>

\* FileManager.getChunkPath: `${parts.join('.')}.part${index}.${ext}`
getChunkPath(originalPath, index) ==
  LET ext   == originalPath[Len(originalPath)]
      parts == SubSeq(originalPath, 1, Len(originalPath) - 1)
  IN  JoinedSegments(parts) \o <<"part" \o ToString(index), ext>>

\* Map.prototype.set on a map from paths (or operation ids)
MapPut(map, key, value) ==
  [k \in DOMAIN map \cup {key} |-> IF k = key THEN value ELSE map[k]]

\* Map.prototype.delete
MapDelete(map, key) == [k \in DOMAIN map \ {key} |-> map[k]]

\* a cache write that keeps the entry a path already has
CacheAfterWriteKeepFirst(cache, path, content, metadata, t) ==
  IF path \in DOMAIN cache THEN cache
  ELSE [k \in DOMAIN cache \cup {path} |->
          IF k = path THEN [content |-> content, timestamp |-> t, metadata |-> metadata]
          ELSE cache[k]]

\* FileManager.writeSingleFile at time t: the cache after the call
\* (metadata is options.metadata || {}).  Both Date.now() calls of the
\* method are taken to give the same value t.
CacheAfterWrite(cache, path, content, metadata, t) ==
  MapPut(cache, path, [content |-> content, timestamp |-> t, metadata |-> metadata])

\* FileManager.writeSingleFile at time t: the value it resolves with
WriteResult(path, content, t) ==
  [path |-> path, size |-> Length(content), cached |-> TRUE, timestamp |-> t]

\* the value undefined, and a number or a string as a tagged value
Undefined == [type |-> "undefined"]
Number(n) == [type |-> "number", value |-> n]
String(str) == [type |-> "string", chars |-> str]

\* options.metadata || {}
MetadataOf(options) ==
  IF "metadata" \in DOMAIN options THEN options.metadata ELSE <<>>

\* FileManager.isCached
isCached(cache, path) == path \in DOMAIN cache

\* FileManager.getCached: Map.prototype.get gives undefined for a missing key
getCached(cache, path) == IF path \in DOMAIN cache THEN cache[path] ELSE Undefined

\* the default of clearCache's olderThan parameter
DEFAULT_MAX_AGE == 3600000

\* age > olderThan as JavaScript evaluates it: a string that is not a numeral
\* (a path) converts to NaN, and every comparison with NaN is false
AgeExceeds(age, olderThan) ==
  olderThan.type = "number" /\ age > olderThan.value

\* clearCache that also removes an entry whose age equals the limit
clearCacheInclusive(cache, arg, t) ==
  LET olderThan == IF arg = Undefined THEN Number(DEFAULT_MAX_AGE) ELSE arg
      kept == { path \in DOMAIN cache :
                  olderThan.type = "number" =>
                    t - cache[path].timestamp < olderThan.value }
  IN  [path \in kept |-> cache[path]]

\* FileManager.clearCache(arg) at time t: the cache after the call.  The
\* default applies when the argument is undefined; Map iteration visits
\* every entry although entries are deleted on the way.
clearCache(cache, arg, t) ==
  LET olderThan == IF arg = Undefined THEN Number(DEFAULT_MAX_AGE) ELSE arg
      kept == { path \in DOMAIN cache :
                  ~AgeExceeds(t - cache[path].timestamp, olderThan) }
  IN  [path \in kept |-> cache[path]]

-----------------------------------------------------------------------------
(* ChunkManager *)

\* the callers of writeContentInChunks
Callers == {"c1", "c2"}

\* contents handed to writeContentInChunks: 3 bytes, 50000 bytes (not
\* chunked), 100001 bytes in 60001 code units, 120000 bytes
WriteContents ==
  { <<[ch |-> "a", n |-> 3]>>,
    <<[ch |-> "e2", n |-> 25000]>>,
    <<[ch |-> "a", n |-> 20001], [ch |-> "e2", n |-> 40000]>>,
    <<[ch |-> "a", n |-> 120000]>> }

\* latest time the clock is advanced to
MaxNow == 1
\* most repeated updateChunkProgress calls made from outside a write
MaxRedeliveries == 2

\* the methods the ChunkManager class body defines
ChunkManagerMethods ==
  { "writeContentInChunks", "handleChunkedWrite", "writeChunk",
    "updateChunkProgress", "finalizeChunkedOperation", "concatenateChunks",
    "generateOperationId", "getOperationStatus", "cleanupOperation" }

NoError == [class |-> "none"]
NotAFunction(name) ==
  [class |-> "TypeError", message |-> <<"this." \o name \o " is not a function">>]
UndefinedProperty(name) ==
  [class |-> "TypeError",
   message |-> <<"Cannot read properties of undefined (reading '" \o name \o "')">>]

\* A Map keeps its entries in insertion order: a sequence of [key, value].
\* Map.prototype.set: an existing key keeps its place
EntriesSet(entries, key, value) ==
  IF \E k \in 1..Len(entries) : entries[k].key = key
    THEN [k \in 1..Len(entries) |->
            IF entries[k].key = key THEN [key |-> key, value |-> value]
            ELSE entries[k]]
    ELSE Append(entries, [key |-> key, value |-> value])

\* Array.from(map.values())
EntriesValues(entries) == [k \in 1..Len(entries) |-> entries[k].value]

EntriesKeys(entries) == {entries[k].key : k \in 1..Len(entries)}

\* ChunkManager.updateChunkProgress: the table after the call and the error
\* the call throws, if any.  The record is updated before line 61 calls
\* this.handleCompletedOperation, which the class does not define.
updateChunkProgress(pending, operationId, index, result) ==
  IF operationId \notin DOMAIN pending
    THEN [pending |-> pending, error |-> NoError]
    ELSE LET operation == pending[operationId]
             updated   == [total     |-> operation.total,
                           completed |-> operation.completed + 1,
                           chunks    |-> EntriesSet(operation.chunks, index, result)]
         IN  [pending |-> [pending EXCEPT ![operationId] = updated],
              error   |-> IF updated.completed = updated.total
                             /\ "handleCompletedOperation" \notin ChunkManagerMethods
                            THEN NotAFunction("handleCompletedOperation")
                            ELSE NoError]

\* insertion of x into a sequence sorted by metadata.index
RECURSIVE InsertByIndex(_, _)
InsertByIndex(sorted, x) ==
  IF sorted = <<>> THEN <<x>>
  ELSE IF x.metadata.index < Head(sorted).metadata.index THEN <<x>> \o sorted
  ELSE <<Head(sorted)>> \o InsertByIndex(Tail(sorted), x)

\* chunks.sort((a, b) => a.metadata.index - b.metadata.index), every element
\* having metadata
RECURSIVE SortByIndex(_)
SortByIndex(chunks) ==
  IF chunks = <<>> THEN <<>>
  ELSE InsertByIndex(SortByIndex(SubSeq(chunks, 1, Len(chunks) - 1)),
                     chunks[Len(chunks)])

\* chunk.content as join('') sees it: undefined joins as the empty string
JoinedContent(chunk) == IF "content" \in DOMAIN chunk THEN chunk.content ELSE <<>>

\* ChunkManager.concatenateChunks: the value it resolves with or the error it
\* rejects with.  sort calls the comparator as soon as there are two
\* elements, and the comparator reads a.metadata.index.
concatenateChunks(chunks) ==
  IF Len(chunks) >= 2 /\ \E k \in 1..Len(chunks) : "metadata" \notin DOMAIN chunks[k]
    THEN [ok |-> FALSE, error |-> UndefinedProperty("index")]
    ELSE LET sorted == IF Len(chunks) >= 2 THEN SortByIndex(chunks) ELSE chunks
         IN  [ok |-> TRUE,
              value |-> Join([k \in 1..Len(sorted) |-> JoinedContent(sorted[k])])]

IdleCall ==
  [pc |-> "idle", path |-> <<>>, content |-> <<>>, operationId |-> 0, total |-> 0,
   chunks |-> <<>>, i |-> 0, results |-> <<>>, awaited |-> <<>>, outcome |-> <<>>]

\* the chunk put in the cache under the original path
ChunkCacheAtPath(cache, call, index, t) ==
  CacheAfterWrite(cache, call.path, call.chunks[index + 1],
                  [operationId |-> call.operationId, index |-> index, isChunk |-> TRUE],
                  t)

\* writeChunk up to its await: the chunk is put in the cache under its chunk
\* path with metadata {operationId, index, isChunk: true}
ChunkCache(cache, call, index, t) ==
  CacheAfterWrite(cache, getChunkPath(call.path, index), call.chunks[index + 1],
                  [operationId |-> call.operationId, index |-> index, isChunk |-> TRUE],
                  t)

\* the result of a chunk write reported under the original path
ChunkResultAtPath(call, index, t) ==
  WriteResult(call.path, call.chunks[index + 1], t)

\* what writeChunk's `await writeSingleFile` resolves with
ChunkResult(call, index, t) ==
  WriteResult(getChunkPath(call.path, index), call.chunks[index + 1], t)

\* writeContentInChunks(path, content) is called by caller c and runs to its
\* first await: either writeSingleFile(path, content), or the start of
\* handleChunkedWrite up to the await inside writeChunk for index 0
WriteContentInChunks(c, path, content) ==
  LET analysis == analyzeContent(content)
  IN  /\ calls[c].pc = "idle"
      /\ IF analysis.requiresChunking
           THEN LET operationId == opCounter + 1
                    chunks == splitContent(content, analysis.chunks)
                    call   == [IdleCall EXCEPT !.pc = "writeChunk", !.path = path,
                                 !.content = content, !.operationId = operationId,
                                 !.total = Len(chunks), !.chunks = chunks, !.i = 0]
                IN  /\ opCounter' = operationId
                    /\ pendingChunks' =
                         MapPut(pendingChunks, operationId,
                                [total |-> Len(chunks), completed |-> 0, chunks |-> <<>>])
                    /\ finalized' = MapPut(finalized, operationId, <<>>)
                    /\ fileCache' = ChunkCache(fileCache, call, 0, now)
                    /\ calls' = [calls EXCEPT ![c] =
                                   [call EXCEPT !.awaited = ChunkResult(call, 0, now)]]
           ELSE /\ fileCache' = CacheAfterWrite(fileCache, path, content, <<>>, now)
                /\ calls' = [calls EXCEPT ![c] =
                               [IdleCall EXCEPT !.pc = "writeSingle", !.path = path,
                                  !.content = content,
                                  !.awaited = WriteResult(path, content, now)]]
                /\ UNCHANGED <<opCounter, pendingChunks, finalized>>
      /\ UNCHANGED <<now, redeliveries, fm, rt, api>>

\* the unchunked write resolving with an array of the result, as the chunked
\* write does, instead of the result itself
SingleFileWrittenReturnsResults(c) ==
  /\ calls[c].pc = "writeSingle"
  /\ calls' = [calls EXCEPT ![c].pc = "resolved",
                            ![c].outcome = [results |-> <<calls[c].awaited>>]]
  /\ UNCHANGED <<fileCache, pendingChunks, now, opCounter, finalized, redeliveries,
                 fm, rt, api>>

\* the unchunked write resumes after `await writeSingleFile` and resolves
SingleFileWritten(c) ==
  /\ calls[c].pc = "writeSingle"
  /\ calls' = [calls EXCEPT ![c].pc = "resolved", ![c].outcome = calls[c].awaited]
  /\ UNCHANGED <<fileCache, pendingChunks, now, opCounter, finalized, redeliveries,
                 fm, rt, api>>

\* writeChunk resumes after `await writeSingleFile`: updateChunkProgress,
\* then return result.  An error thrown there rejects writeChunk,
\* handleChunkedWrite and writeContentInChunks in turn.
ChunkWritten(c) ==
  LET call == calls[c]
      upd  == updateChunkProgress(pendingChunks, call.operationId, call.i, call.awaited)
  IN  /\ call.pc = "writeChunk"
      /\ pendingChunks' = upd.pending
      /\ calls' = [calls EXCEPT ![c] =
                     IF upd.error = NoError
                       THEN [call EXCEPT !.pc = "chunkReturned"]
                       ELSE [call EXCEPT !.pc = "rejected", !.outcome = upd.error]]
      /\ UNCHANGED <<fileCache, now, opCounter, finalized, redeliveries, fm, rt, api>>

\* the loop of handleChunkedWrite resumes after `await this.writeChunk`:
\* results.push(result), i++, and either the next writeChunk up to its await
\* or finalizeChunkedOperation up to its first await
ChunkLoop(c) ==
  LET call    == calls[c]
      results == Append(call.results, call.awaited)
      i       == call.i + 1
  IN  /\ call.pc = "chunkReturned"
      /\ IF i < Len(call.chunks)
           THEN /\ fileCache' = ChunkCache(fileCache, call, i, now)
                /\ calls' = [calls EXCEPT ![c] =
                               [call EXCEPT !.pc = "writeChunk", !.i = i,
                                  !.results = results,
                                  !.awaited = ChunkResult(call, i, now)]]
           ELSE /\ fileCache' = fileCache
                /\ calls' = [calls EXCEPT ![c] =
                               IF call.operationId \notin DOMAIN pendingChunks
                                 THEN [call EXCEPT !.pc = "finalizeReturned", !.i = i,
                                         !.results = results]
                                 ELSE [call EXCEPT !.pc = "concatenate", !.i = i,
                                         !.results = results,
                                         !.awaited = concatenateChunks(EntriesValues(
                                            pendingChunks[call.operationId].chunks))]]
      /\ UNCHANGED <<pendingChunks, now, opCounter, finalized, redeliveries, fm, rt, api>>

\* finalizeChunkedOperation resumes after one of its awaits, or
\* handleChunkedWrite resumes after `await this.finalizeChunkedOperation`:
\*   concatenate       the merged content is written to the original path
\*   finalWrite        the operation record is deleted and finalize returns
\*   finalizeReturned  handleChunkedWrite returns results
FinalizeResumes(c) ==
  LET call == calls[c]
  IN  /\ call.pc \in {"concatenate", "finalWrite", "finalizeReturned"}
      /\ IF call.pc = "concatenate"
           THEN IF call.awaited.ok
                  THEN /\ fileCache' =
                            CacheAfterWrite(fileCache, call.path, call.awaited.value,
                              [operationId |-> call.operationId, isComplete |-> TRUE,
                               totalChunks |-> call.total], now)
                       /\ calls' = [calls EXCEPT ![c].pc = "finalWrite"]
                       /\ UNCHANGED <<pendingChunks, finalized>>
                  ELSE /\ calls' = [calls EXCEPT ![c].pc = "rejected",
                                                 ![c].outcome = call.awaited.error]
                       /\ UNCHANGED <<fileCache, pendingChunks, finalized>>
         ELSE IF call.pc = "finalWrite"
           THEN /\ finalized' =
                     [finalized EXCEPT ![call.operationId] =
                        Append(@, IF call.operationId \in DOMAIN pendingChunks
                                    THEN EntriesKeys(pendingChunks[call.operationId].chunks)
                                    ELSE {})]
                /\ pendingChunks' =
                     IF call.operationId \in DOMAIN pendingChunks
                       THEN MapDelete(pendingChunks, call.operationId)
                       ELSE pendingChunks
                /\ calls' = [calls EXCEPT ![c].pc = "finalizeReturned"]
                /\ UNCHANGED fileCache
         ELSE /\ calls' = [calls EXCEPT ![c].pc = "resolved",
                                        ![c].outcome = call.results]
              /\ UNCHANGED <<fileCache, pendingChunks, finalized>>
      /\ UNCHANGED <<now, opCounter, redeliveries, fm, rt, api>>

\* updateChunkProgress(operationId, index, result) is called again for an
\* index that is already recorded, with the result recorded for it (a
\* success delivered twice); an error it throws goes to that caller
RedeliverChunkProgress(operationId, k) ==
  /\ redeliveries < MaxRedeliveries
  /\ operationId \in DOMAIN pendingChunks
  /\ k \in 1..Len(pendingChunks[operationId].chunks)
  /\ LET entry == pendingChunks[operationId].chunks[k]
     IN  pendingChunks' =
           updateChunkProgress(pendingChunks, operationId, entry.key, entry.value).pending
  /\ redeliveries' = redeliveries + 1
  /\ UNCHANGED <<fileCache, now, opCounter, calls, finalized, fm, rt, api>>

\* time passes
Tick ==
  /\ now < MaxNow
  /\ now' = now + 1
  /\ UNCHANGED <<fileCache, pendingChunks, opCounter, calls, finalized, redeliveries,
                 fm, rt, api>>

-----------------------------------------------------------------------------
(* ChunkManager: status and cleanup *)

Null == [type |-> "null"]

\* getOperationStatus with isComplete: completed >= total
getOperationStatusAtLeast(pending, operationId) ==
  IF operationId \notin DOMAIN pending THEN Null
  ELSE LET operation == pending[operationId]
       IN  [total      |-> operation.total,
            completed  |-> operation.completed,
            progress   |-> [num |-> operation.completed * 100, den |-> operation.total],
            isComplete |-> operation.completed >= operation.total]

\* ChunkManager.getOperationStatus.  progress, (completed / total) * 100, is
\* kept as the fraction completed * 100 / total.
getOperationStatus(pending, operationId) ==
  IF operationId \notin DOMAIN pending THEN Null
  ELSE LET operation == pending[operationId]
       IN  [total      |-> operation.total,
            completed  |-> operation.completed,
            progress   |-> [num |-> operation.completed * 100, den |-> operation.total],
            isComplete |-> operation.completed = operation.total]

\* operation.chunks.forEach(chunk => this.fileManager.clearCache(chunk.path)):
\* the cache after clearCache was called with the path of each recorded
\* result in turn, from the k-th on
RECURSIVE ClearCacheForEach(_, _, _, _)
ClearCacheForEach(cache, chunks, k, t) ==
  IF k > Len(chunks) THEN cache
  ELSE ClearCacheForEach(clearCache(cache, String(chunks[k].path), t), chunks, k + 1, t)

\* ChunkManager.cleanupOperation at time t: the cache and the table after it
cleanupOperation(cache, pending, operationId, t) ==
  IF operationId \notin DOMAIN pending
    THEN [cache |-> cache, pending |-> pending]
    ELSE [cache   |-> ClearCacheForEach(cache,
                        EntriesValues(pending[operationId].chunks), 1, t),
          pending |-> MapDelete(pending, operationId)]

\* chunkManager.getOperationStatus(operationId) is called
GetOperationStatusCall(operationId) ==
  /\ api' = [op |-> "getOperationStatus", operationId |-> operationId,
             result |-> getOperationStatus(pendingChunks, operationId)]
  /\ UNCHANGED <<fileCache, pendingChunks, now, opCounter, calls, finalized,
                 redeliveries, fm, rt>>

\* chunkManager.cleanupOperation(operationId) is called
CleanupOperationCall(operationId) ==
  LET after == cleanupOperation(fileCache, pendingChunks, operationId, now)
  IN  /\ fileCache' = after.cache
      /\ pendingChunks' = after.pending
      /\ api' = [op |-> "cleanupOperation", operationId |-> operationId,
                 known |-> operationId \in DOMAIN pendingChunks,
                 before |-> fileCache]
      /\ UNCHANGED <<now, opCounter, calls, finalized, redeliveries, fm, rt>>

-----------------------------------------------------------------------------
(* FileManager methods called directly *)

\* contents, options and arguments of the direct calls
FileContents == { <<[ch |-> "a", n |-> 3]>>, <<[ch |-> "e2", n |-> 25000]>> }
WriteOptions == { <<>>, [metadata |-> [owner |-> "u1"]] }
ChunkPathInputs ==
  WritePaths \cup { <<"archive", "tar", "gz">>, <<"data", "part0", "json">>,
                    <<"", "notes">> }
ClearCacheArgs ==
  { Undefined, Number(0), Number(1), Number(DEFAULT_MAX_AGE),
    String(<<"data", "part0", "json">>) }

\* fileManager.writeSingleFile(path, content, options): an async method
\* without an await, it runs to its return in one step
WriteSingleFileCall(path, content, options) ==
  /\ fileCache' = CacheAfterWrite(fileCache, path, content, MetadataOf(options), now)
  /\ api' = [op |-> "writeSingleFile", path |-> path, content |-> content,
             options |-> options, before |-> fileCache,
             result |-> WriteResult(path, content, now)]
  /\ UNCHANGED <<pendingChunks, now, opCounter, calls, finalized, redeliveries, fm, rt>>

\* fileManager.clearCache(arg)
ClearCacheCall(arg) ==
  /\ fileCache' = clearCache(fileCache, arg, now)
  /\ api' = [op |-> "clearCache", arg |-> arg, before |-> fileCache, at |-> now]
  /\ UNCHANGED <<pendingChunks, now, opCounter, calls, finalized, redeliveries, fm, rt>>

\* fileManager.getChunkPath(path, index)
GetChunkPathCall(path, index) ==
  /\ api' = [op |-> "getChunkPath", path |-> path, index |-> index,
             result |-> getChunkPath(path, index)]
  /\ UNCHANGED <<fileCache, pendingChunks, now, opCounter, calls, finalized,
                 redeliveries, fm, rt>>

\* an hour (the default age limit of clearCache) passes, once
HourPasses ==
  /\ now < DEFAULT_MAX_AGE
  /\ now' = now + DEFAULT_MAX_AGE
  /\ UNCHANGED <<fileCache, pendingChunks, opCounter, calls, finalized, redeliveries,
                 fm, rt, api>>

\* writeChunkedFile's loop at index i, up to its await:
\* writeSingleFile(chunkPath, chunks[i]) without options
WriteFileChunk(frame, i) ==
  [frame EXCEPT !.pc = "writeChunk", !.i = i,
                !.awaited = WriteResult(getChunkPath(frame.path, i),
                                        frame.chunks[i + 1], now)]

\* the cache after writeSingleFile(chunkPath, chunks[i]) of writeChunkedFile
WriteFileChunkCache(cache, frame, i) ==
  CacheAfterWrite(cache, getChunkPath(frame.path, i), frame.chunks[i + 1], <<>>, now)

\* "Cache the chunk": fileCache.set(chunkPath, {content: chunks[i],
\* timestamp, metadata: {part: i, total: chunks.length}})
CacheTheChunk(cache, frame) ==
  MapPut(cache, getChunkPath(frame.path, frame.i),
         [content |-> frame.chunks[frame.i + 1], timestamp |-> now,
          metadata |-> [part |-> frame.i, total |-> Len(frame.chunks)]])

\* fileManager.writeFile(path, content, options) is called and runs to its
\* first await: the one in writeChunkedFile's loop for index 0, or, for
\* content that needs no chunking, the return of writeSingleFile's promise
WriteFileCall(path, content, options) ==
  LET analysis == analyzeContent(content)
      frame == [op |-> "writeFile", pc |-> "called", path |-> path,
                content |-> content, options |-> options, chunks |-> <<>>, i |-> 0,
                results |-> <<>>, awaited |-> <<>>, outcome |-> <<>>]
  IN  /\ IF analysis.requiresChunking
           THEN LET chunked ==
                      [frame EXCEPT !.chunks = splitContent(content, analysis.chunks)]
                IN  /\ fileCache' = WriteFileChunkCache(fileCache, chunked, 0)
                    /\ api' = WriteFileChunk(chunked, 0)
           ELSE /\ fileCache' =
                     CacheAfterWrite(fileCache, path, content, MetadataOf(options), now)
                /\ api' = [frame EXCEPT !.pc = "writeSingle",
                                        !.awaited = WriteResult(path, content, now)]
      /\ UNCHANGED <<pendingChunks, now, opCounter, calls, finalized, redeliveries,
                     fm, rt>>

\* writeFile resumes: after `await this.writeSingleFile(chunkPath, chunks[i])`
\* the result is pushed, the chunk is cached again under its chunk path and
\* the loop goes to the next chunk or returns results; an unchunked call
\* resolves with the result of writeSingleFile
WriteFileResumes ==
  /\ api.op = "writeFile"
  /\ api.pc \in {"writeChunk", "writeSingle"}
  /\ IF api.pc = "writeSingle"
       THEN /\ api' = [api EXCEPT !.pc = "resolved", !.outcome = api.awaited]
            /\ UNCHANGED fileCache
       ELSE LET results == Append(api.results, api.awaited)
                cached  == CacheTheChunk(fileCache, api)
                pushed  == [api EXCEPT !.results = results]
            IN  IF api.i + 1 < Len(api.chunks)
                  THEN /\ fileCache' = WriteFileChunkCache(cached, pushed, api.i + 1)
                       /\ api' = WriteFileChunk(pushed, api.i + 1)
                  ELSE /\ fileCache' = cached
                       /\ api' = [pushed EXCEPT !.pc = "resolved", !.i = api.i + 1,
                                                !.outcome = results]
  /\ UNCHANGED <<pendingChunks, now, opCounter, calls, finalized, redeliveries,
                 fm, rt>>

-----------------------------------------------------------------------------
(* Specifications *)

IdleFileManagerCall ==
  [pc |-> "idle", content |-> <<>>, numChunks |-> 1, analysis |-> <<>>,
   fragments |-> <<>>]

IdleRetryCall ==
  [pc |-> "idle", handler |-> ErrorHandler(<<>>), context |-> <<>>, attempt |-> 0,
   delay |-> 0, lastError |-> NoError, invocations |-> 0, waits |-> <<>>,
   result |-> "undefined", opValue |-> "undefined"]

\* no method has been called from outside a write
IdleApiCall == [op |-> "none"]

\* a new ChunkManager with its new FileManager
InitChunkManager ==
  /\ fileCache = <<>>
  /\ pendingChunks = <<>>
  /\ now = 0
  /\ opCounter = 0
  /\ calls = [c \in Callers |-> IdleCall]
  /\ finalized = <<>>
  /\ redeliveries = 0
  /\ api = IdleApiCall

\* The chunk manager and its callers
Init ==
  /\ InitChunkManager
  /\ fm = IdleFileManagerCall
  /\ rt = IdleRetryCall

Next ==
  \/ \E c \in Callers, path \in WritePaths, content \in WriteContents :
       WriteContentInChunks(c, path, content)
  \/ \E c \in Callers : SingleFileWritten(c)
  \/ \E c \in Callers : ChunkWritten(c)
  \/ \E c \in Callers : ChunkLoop(c)
  \/ \E c \in Callers : FinalizeResumes(c)
  \/ \E operationId \in 1..opCounter, k \in 1..MaxNumChunks :
       RedeliverChunkProgress(operationId, k)
  \/ Tick

Spec == Init /\ [][Next]_vars

\* FileManager's pure functions applied to every content and chunk count
InitFileManager ==
  /\ InitChunkManager
  /\ fm \in {[IdleFileManagerCall EXCEPT !.pc = "ready", !.content = content,
                !.numChunks = numChunks] :
               content \in Contents, numChunks \in 1..MaxNumChunks}
  /\ rt = IdleRetryCall

\* a chunk manager write may have started before the pure function is called
NextFileManager ==
  \/ AnalyzeContentCall
  \/ SplitContentCall
  \/ SplitAnalyzedContent
  \/ /\ fm.pc = "ready"
     /\ \E path \in WritePaths, content \in WriteContents :
          WriteContentInChunks("c1", path, content)

SpecFileManager == InitFileManager /\ [][NextFileManager]_vars

\* One withRetry call on a handler constructed from every option record
InitRetry ==
  /\ InitChunkManager
  /\ fm = IdleFileManagerCall
  /\ rt \in {[IdleRetryCall EXCEPT !.pc = "ready", !.handler = ErrorHandler(options),
                !.context = context] :
               options \in ConstructorOptions, context \in Contexts}

NextRetry ==
  \/ WithRetry
  \/ \E v \in OperationValues : OperationReturns(v)
  \/ \E error \in ThrownErrors : OperationThrows(error)
  \/ \E response \in WorkerResponses, body \in OperationValues :
       WorkerResponds("w1", response, body)
  \/ SleepEnds

SpecRetry == InitRetry /\ [][NextRetry]_vars

\* operation ids handed to getOperationStatus and cleanupOperation: those
\* generated so far and one that was never generated
OperationIds == 1..(opCounter + 1)

\* one write, with status queries and cleanups called at any moment
NextApi ==
  \/ \E path \in WritePaths, content \in WriteContents :
       WriteContentInChunks("c1", path, content)
  \/ SingleFileWritten("c1")
  \/ ChunkWritten("c1")
  \/ ChunkLoop("c1")
  \/ FinalizeResumes("c1")
  \/ \E operationId \in 1..opCounter, k \in 1..MaxNumChunks :
       RedeliverChunkProgress(operationId, k)
  \/ \E operationId \in OperationIds : GetOperationStatusCall(operationId)
  \/ \E operationId \in OperationIds : CleanupOperationCall(operationId)
  \/ Tick

SpecApi == Init /\ [][NextApi]_vars

\* one withRetry call, and other operations started while it waits in
\* sleep(delay): a cache write, a status query and an unchunked
\* writeContentInChunks with its resumption
NextBackoff ==
  \/ WithRetry
  \/ \E v \in OperationValues : OperationReturns(v)
  \/ \E error \in ThrownErrors : OperationThrows(error)
  \/ SleepEnds
  \/ /\ rt.pc = "sleeping"
     /\ \E options \in WriteOptions :
          WriteSingleFileCall(<<"notes">>, <<[ch |-> "a", n |-> 3]>>, options)
  \/ /\ rt.pc = "sleeping"
     /\ GetOperationStatusCall(1)
  \/ /\ rt.pc = "sleeping"
     /\ WriteContentInChunks("c1", <<"data", "json">>, <<[ch |-> "a", n |-> 3]>>)
  \/ /\ rt.pc = "sleeping"
     /\ SingleFileWritten("c1")

\* a handler with the default delays and any maxRetries is about to be used
InitBackoff ==
  /\ InitChunkManager
  /\ fm = IdleFileManagerCall
  /\ rt \in {[IdleRetryCall EXCEPT !.pc = "ready", !.handler = ErrorHandler(options),
                !.context = context] :
               options \in {o \in ConstructorOptions : DOMAIN o \subseteq {"maxRetries"}},
               context \in Contexts}

SpecBackoff == InitBackoff /\ [][NextBackoff]_vars

\* the cache of a FileManager under direct calls of its methods
NextCache ==
  \/ \E path \in WritePaths, content \in FileContents, options \in WriteOptions :
       WriteSingleFileCall(path, content, options)
  \/ \E arg \in ClearCacheArgs : ClearCacheCall(arg)
  \/ \E path \in ChunkPathInputs, index \in 0..MaxNumChunks :
       GetChunkPathCall(path, index)
  \/ Tick
  \/ HourPasses

SpecCache == Init /\ [][NextCache]_vars

\* one write on a new manager, through either entry point:
\* FileManager.writeFile or ChunkManager.writeContentInChunks (whose chunk
\* completions may be delivered again)
NextWriteFile ==
  \/ /\ api.op = "none"
     /\ calls["c1"].pc = "idle"
     /\ \E path \in WritePaths, content \in WriteContents, options \in WriteOptions :
          WriteFileCall(path, content, options)
  \/ WriteFileResumes
  \/ /\ api.op = "none"
     /\ \E path \in WritePaths, content \in WriteContents :
          WriteContentInChunks("c1", path, content)
  \/ SingleFileWritten("c1")
  \/ ChunkWritten("c1")
  \/ ChunkLoop("c1")
  \/ FinalizeResumes("c1")
  \/ \E operationId \in 1..opCounter, k \in 1..MaxNumChunks :
       RedeliverChunkProgress(operationId, k)
  \/ Tick

SpecWriteFile == Init /\ [][NextWriteFile]_vars

-----------------------------------------------------------------------------
(* Properties *)

\* the chunked write of caller c, if it has started one
Chunked(c) == calls[c].operationId # 0
Settled(c) == calls[c].pc \in {"resolved", "rejected"}

\* C1: every chunked write is finalized exactly once, each finalize happens
\* with every chunk index 0..total-1 recorded, and a write that has settled
\* has been finalized (Spec)
C1_FinalizeExactlyOnce ==
  \A c \in Callers :
    Chunked(c) =>
      LET done == finalized[calls[c].operationId]
      IN  /\ Len(done) <= 1
          /\ \A k \in 1..Len(done) : done[k] = 0..(calls[c].total - 1)
          /\ Settled(c) => Len(done) = 1

\* C2: once a chunked write has settled, and no other caller has written to
\* the same path, the call has resolved and the cache entry at the original
\* path holds the input content (Spec)
C2_ChunkedWriteStoresContent ==
  \A c \in Callers :
    (/\ Chunked(c)
     /\ Settled(c)
     /\ \A d \in Callers \ {c} : calls[d].path # calls[c].path)
    => /\ calls[c].pc = "resolved"
       /\ calls[c].path \in DOMAIN fileCache
       /\ fileCache[calls[c].path].content = calls[c].content

\* C3: the completed count of every operation equals the number of distinct
\* chunk indices recorded for it, however often a success is delivered (Spec)
C3_CompletedCountsDistinctIndices ==
  \A operationId \in DOMAIN pendingChunks :
    pendingChunks[operationId].completed
      = Cardinality(EntriesKeys(pendingChunks[operationId].chunks))

\* C4: the fragments of splitContent(content, numChunks), joined in index
\* order, are the content, for empty and non-empty content and every
\* numChunks >= 1 (SpecFileManager)
C4_SplitRoundTrip ==
  fm.pc = "split" =>
    /\ Len(fm.fragments) = fm.numChunks
    /\ Join(fm.fragments) = fm.content

C4_Witness ==
  /\ fm.pc = "split"
  /\ Len(fm.content) = 2
  /\ fm.numChunks = 3
  /\ fm.fragments[3] # <<>>
  /\ Length(fm.fragments[3]) < Length(fm.fragments[1])
  /\ Len(fm.fragments[2]) = 2

\* C5: analyzeContent(content).chunks is ceil(size / CHUNK_SIZE) when
\* size > CHUNK_SIZE, and is 1 with requiresChunking false when
\* size <= CHUNK_SIZE, empty content included (SpecFileManager)
C5_ChunkCount ==
  fm.pc = "analyzed" =>
    LET size   == ByteLength(fm.content)
        chunks == fm.analysis.chunks
    IN  IF size > CHUNK_SIZE
          THEN /\ chunks * CHUNK_SIZE >= size
               /\ (chunks - 1) * CHUNK_SIZE < size
          ELSE /\ chunks = 1
               /\ fm.analysis.requiresChunking = FALSE

\* C6: analyzeContent's thresholds are strict (requiresChunking exactly when
\* size > CHUNK_SIZE, approachingLimit exactly when size is more than 8/10 of
\* CHUNK_SIZE, size being the byte length), and the call changes neither the
\* cache nor the operation table (SpecFileManager)
C6_StrictThresholdsNoEffect ==
  [][fm'.pc = "analyzed" =>
       LET size == ByteLength(fm.content)
       IN  /\ fm'.analysis.size = size
           /\ fm'.analysis.requiresChunking = (size > CHUNK_SIZE)
           /\ fm'.analysis.approachingLimit = (10 * size > 8 * CHUNK_SIZE)
           /\ fileCache' = fileCache
           /\ pendingChunks' = pendingChunks]_vars

C6_Witness ==
  /\ fm.pc = "analyzed"
  /\ fm.analysis.size = CHUNK_SIZE
  /\ fm.analysis.requiresChunking = FALSE
  /\ fm.analysis.approachingLimit = TRUE
  /\ DOMAIN fileCache # {}
  /\ DOMAIN pendingChunks # {}

\* 2 ^ k for k >= 0
RECURSIVE Pow2(_)
Pow2(k) == IF k = 0 THEN 1 ELSE 2 * Pow2(k - 1)

\* C7: the wait after the k-th failed attempt is
\* min(baseDelay * 2^(k-1), maxDelay), and no wait exceeds maxDelay (SpecRetry)
C7_BackoffSchedule ==
  \A k \in 1..Len(rt.waits) :
    /\ rt.waits[k] = Min(rt.handler.baseDelay * Pow2(k - 1), rt.handler.maxDelay)
    /\ rt.waits[k] <= rt.handler.maxDelay

\* C8: a permanent (ValidationError) failure ends withRetry at once: no
\* attempt and no wait follows it, so a first attempt that fails this way is
\* the only invocation, and the call throws an error that carries the given
\* context and a timestamp (SpecRetry)
C8_FailFastOnPermanent ==
  rt.lastError.class = "ValidationError" =>
    /\ rt.pc = "thrown"
    /\ rt.invocations = rt.attempt
    /\ Len(rt.waits) = rt.attempt - 1
    /\ rt.attempt = 1 => (rt.invocations = 1 /\ rt.waits = <<>>)
    /\ rt.result.context = rt.context
    /\ "timestamp" \in DOMAIN rt.result
    /\ rt.result.timestamp = now

C8_Witness ==
  /\ rt.lastError.class = "ValidationError"
  /\ rt.pc = "thrown"
  /\ rt.attempt = 1
  /\ rt.invocations = 1
  /\ rt.context # <<>>
  /\ rt.handler.maxRetries > 1

\* C9: when no attempt has succeeded and the last one failed with a
\* retryable error, withRetry is waiting for the next attempt if fewer than
\* maxRetries were made, and otherwise has thrown, after exactly maxRetries
\* invocations and maxRetries - 1 waits, a WorkerError whose message gives
\* the number of attempts and the last error's message (SpecRetry)
C9_Exhaustion ==
  (/\ rt.invocations >= 1
   /\ rt.pc # "operation"
   /\ rt.opValue = "undefined"
   /\ isRetryable(rt.lastError))
  => IF rt.invocations < rt.handler.maxRetries
       THEN /\ rt.pc = "sleeping"
            /\ Len(rt.waits) = rt.invocations
       ELSE /\ rt.pc = "thrown"
            /\ rt.invocations = rt.handler.maxRetries
            /\ Len(rt.waits) = rt.handler.maxRetries - 1
            /\ rt.result.class = "WorkerError"
            /\ rt.result.message =
                 <<"Operation failed after", ToString(rt.handler.maxRetries),
                   "attempts:">> \o rt.lastError.message

C9_Witness ==
  /\ rt.pc = "thrown"
  /\ rt.handler.maxRetries = 3
  /\ rt.invocations = 3
  /\ rt.waits = <<1000, 2000>>
  /\ rt.lastError.class = "RetryableError"
  /\ rt.result.message = <<"Operation failed after", "3", "attempts:", "busy">>

\* C10: when attempt k succeeds, withRetry returns that attempt's value and
\* the operation has been invoked exactly k times, with k - 1 waits (SpecRetry)
C10_ReturnsFirstSuccess ==
  rt.opValue # "undefined" =>
    /\ rt.pc = "returned"
    /\ rt.result = rt.opValue
    /\ rt.invocations = rt.attempt
    /\ Len(rt.waits) = rt.attempt - 1

C10_Witness ==
  /\ rt.pc = "returned"
  /\ rt.result = "v2"
  /\ rt.attempt = 3
  /\ rt.invocations = 3
  /\ rt.lastError.class = "RetryableError"

\* C11: after a failed attempt, withRetry goes on (waits for the next attempt,
\* or gives up with the final-attempt error when maxRetries is used up)
\* exactly when the error is a RetryableError, or has a status >= 500, or has
\* the code ECONNRESET or ETIMEDOUT; after a ValidationError or any other
\* error it throws that error at once, with no wait after it, so that such an
\* error on the first attempt leaves one invocation and no wait (SpecRetry)
C11_RetryEligibility ==
  (rt.invocations >= 1 /\ rt.pc \in {"sleeping", "thrown"}) =>
    LET e == rt.lastError
        eligible ==
          \/ e.class = "RetryableError"
          \/ /\ e.class # "ValidationError"
             /\ \/ "status" \in DOMAIN e /\ e.status >= 500
                \/ "code" \in DOMAIN e /\ e.code \in {"ECONNRESET", "ETIMEDOUT"}
    IN  IF eligible
          THEN \/ rt.pc = "sleeping"
               \/ /\ rt.pc = "thrown"
                  /\ rt.attempt = rt.handler.maxRetries
                  /\ "finalAttempt" \in DOMAIN rt.result.context
          ELSE /\ rt.pc = "thrown"
               /\ rt.result.message = e.message
               /\ "finalAttempt" \notin DOMAIN rt.result.context
               /\ rt.invocations = rt.attempt
               /\ Len(rt.waits) = rt.attempt - 1
               /\ rt.attempt = 1 => (rt.invocations = 1 /\ rt.waits = <<>>)

C11_Witness ==
  /\ rt.pc = "thrown"
  /\ rt.handler.maxRetries = 3
  /\ rt.attempt = 2
  /\ rt.waits = <<1000>>
  /\ rt.lastError = [class |-> "Error", message |-> <<"not found">>, status |-> 404]
  /\ rt.result.message = <<"not found">>

\* C12: while a chunk write of a chunked write is awaited, it runs as the
\* operation of a withRetry call: the retry frame is in an attempt (Spec)
C12_ChunkWritesUseWithRetry ==
  \A c \in Callers :
    calls[c].pc = "writeChunk" =>
      /\ rt.pc = "operation"
      /\ rt.invocations >= 1

\* C13: a writeContentInChunks(path, content) call whose content needs no
\* chunking puts exactly one entry in the cache, under path and holding the
\* content as given, when it is called; it leaves every other cache entry,
\* the operation table and the operation counter as they were, and when it
\* resumes it changes nothing and resolves with the result of that
\* write (Spec)
C13_UnchunkedWrite ==
  [][\A c \in Callers :
       /\ (/\ calls[c].pc = "idle"
           /\ calls'[c].pc # "idle"
           /\ ~analyzeContent(calls'[c].content).requiresChunking)
          => LET path    == calls'[c].path
                 content == calls'[c].content
             IN  /\ calls'[c].pc = "writeSingle"
                 /\ DOMAIN fileCache' = DOMAIN fileCache \cup {path}
                 /\ fileCache'[path].content = content
                 /\ \A p \in DOMAIN fileCache \ {path} : fileCache'[p] = fileCache[p]
                 /\ pendingChunks' = pendingChunks
                 /\ opCounter' = opCounter
                 /\ calls'[c].operationId = 0
                 /\ calls'[c].awaited =
                      [path |-> path, size |-> Length(content), cached |-> TRUE,
                       timestamp |-> now]
       /\ (calls[c].pc = "writeSingle" /\ calls'[c] # calls[c])
          => /\ calls'[c].pc = "resolved"
             /\ calls'[c].outcome = calls[c].awaited
             /\ fileCache' = fileCache
             /\ pendingChunks' = pendingChunks
             /\ opCounter' = opCounter
    ]_vars

\* an unchunked write of exactly CHUNK_SIZE bytes has resolved while the
\* chunked write of the other caller is under way
C13_Witness ==
  /\ calls["c1"].pc = "resolved"
  /\ calls["c1"].operationId = 0
  /\ ByteLength(calls["c1"].content) = CHUNK_SIZE
  /\ calls["c1"].outcome.size = 25000
  /\ calls["c2"].pc = "writeChunk"
  /\ DOMAIN pendingChunks = {1}

\* C14: a writeSingleFile(path, content, options) call leaves the cache with
\* the entries it had and the one for path; that entry holds the content, the
\* metadata of options (or {}) and the time of the call, whatever the path
\* held before; every other entry is unchanged; the call returns path,
\* content.length and the time; isCached(path) is then true and
\* getCached(path).content is the content (SpecCache)
C14_WriteSingleFile ==
  [][(api' # api /\ api'.op = "writeSingleFile")
       => LET path    == api'.path
              content == api'.content
              options == api'.options
          IN  /\ DOMAIN fileCache' = DOMAIN fileCache \cup {path}
              /\ fileCache'[path].content = content
              /\ fileCache'[path].timestamp = now
              /\ fileCache'[path].metadata =
                   (IF "metadata" \in DOMAIN options THEN options.metadata ELSE <<>>)
              /\ \A p \in DOMAIN fileCache \ {path} : fileCache'[p] = fileCache[p]
              /\ api'.result.path = path
              /\ api'.result.size = Length(content)
              /\ api'.result.timestamp = now
              /\ isCached(fileCache', path)
              /\ getCached(fileCache', path).content = content
    ]_vars

\* a write has replaced an entry of other content, written earlier with
\* metadata, while another path is cached
C14_Witness ==
  /\ api.op = "writeSingleFile"
  /\ api.path \in DOMAIN api.before
  /\ api.before[api.path].content # api.content
  /\ api.before[api.path].timestamp < now
  /\ api.before[api.path].metadata # <<>>
  /\ api.options = <<>>
  /\ fileCache[api.path].content = api.content
  /\ DOMAIN fileCache = WritePaths

\* C15: clearCache(maxAgeMs), called at time now with a number or with no
\* argument (limit 3600000), removes exactly the entries with
\* now - timestamp > limit and leaves the entries it keeps as they
\* were (SpecCache)
C15_ClearCache ==
  [][(api' # api /\ api'.op = "clearCache" /\ api'.arg.type # "string")
       => LET limit == IF api'.arg.type = "undefined" THEN 3600000
                       ELSE api'.arg.value
          IN  /\ DOMAIN fileCache' =
                   { p \in DOMAIN fileCache : ~(now - fileCache[p].timestamp > limit) }
              /\ \A p \in DOMAIN fileCache' : fileCache'[p] = fileCache[p]
    ]_vars

\* clearCache() has kept an entry whose age is exactly the default limit and
\* removed an older one
C15_Witness ==
  /\ api.op = "clearCache"
  /\ api.arg = Undefined
  /\ \E p \in DOMAIN fileCache :
       /\ api.at - fileCache[p].timestamp = 3600000
       /\ fileCache[p] = api.before[p]
  /\ \E q \in DOMAIN api.before :
       /\ q \notin DOMAIN fileCache
       /\ api.at - api.before[q].timestamp = 3600001

\* C19: the chunk path of a path and an index differs from the chunk path of
\* the same path and any other index, and from the path itself; its last
\* segment is the last segment of the path, and it is the path with
\* part{index} put in before that last segment (for a path without a '.',
\* whose only segment is taken as the extension, after an empty
\* stem) (SpecCache)
C19_ChunkPath ==
  api.op = "getChunkPath" =>
    LET path == api.path
        r    == api.result
        ext  == path[Len(path)]
        stem == SubSeq(path, 1, Len(path) - 1)
    IN  /\ \A j \in 0..(MaxNumChunks + 1) :
             j # api.index => getChunkPath(path, j) # r
        /\ r # path
        /\ r[Len(r)] = ext
        /\ Len(path) > 1 => r = stem \o <<"part" \o ToString(api.index), ext>>
        /\ Len(path) = 1 => r = <<"", "part" \o ToString(api.index), ext>>

C19_Witness ==
  /\ api.op = "getChunkPath"
  /\ api.path = <<"archive", "tar", "gz">>
  /\ api.index = 3
  /\ api.result = <<"archive", "tar", "part3", "gz">>

\* C16: a getOperationStatus(operationId) call changes nothing; it returns
\* null for an id that has no record, and for one that has a record its
\* total, its completed, progress = completed / total * 100, and isComplete
\* true exactly when completed = total (SpecApi)
C16_OperationStatus ==
  [][(api' # api /\ api'.op = "getOperationStatus")
       => /\ UNCHANGED <<fileCache, pendingChunks, now, opCounter, calls, finalized,
                         redeliveries, fm, rt>>
          /\ IF api'.operationId \notin DOMAIN pendingChunks
               THEN api'.result = Null
               ELSE LET operation == pendingChunks[api'.operationId]
                        result    == api'.result
                    IN  /\ result.total = operation.total
                        /\ result.completed = operation.completed
                        /\ result.progress.den # 0
                        /\ result.progress.num * operation.total =
                             operation.completed * 100 * result.progress.den
                        /\ result.isComplete = (operation.completed = operation.total)
    ]_vars

\* the status of an operation whose completed count has passed its total
C16_Witness ==
  /\ api.op = "getOperationStatus"
  /\ api.result # Null
  /\ api.result.total = 3
  /\ api.result.completed = 4
  /\ api.result.progress = [num |-> 400, den |-> 3]
  /\ ~api.result.isComplete

\* C17: the record of a chunked write is in the operation table while the
\* write is under way; a chunk write cannot fail, so the write ends by
\* returning its results, and it does so after finalize has discarded the
\* record: once the write has settled it has resolved and its operation has
\* no record (Spec)
C17_RecordLifetime ==
  \A c \in Callers :
    Chunked(c) =>
      IF Settled(c)
        THEN /\ calls[c].pc = "resolved"
             /\ calls[c].operationId \notin DOMAIN pendingChunks
             /\ getOperationStatus(pendingChunks, calls[c].operationId) = Null
        ELSE calls[c].operationId \in DOMAIN pendingChunks

\* C18: a cleanupOperation(operationId) call for an operation that has a
\* record removes from the cache the entries written as chunks of that
\* operation and no other entry, and discards the record; for an id without
\* a record it changes neither the cache nor the table (SpecApi)
C18_CleanupOperation ==
  [][(api' # api /\ api'.op = "cleanupOperation")
       => LET id == api'.operationId
              ownChunks ==
                { p \in DOMAIN fileCache :
                    /\ "isChunk" \in DOMAIN fileCache[p].metadata
                    /\ fileCache[p].metadata.operationId = id }
          IN  IF id \in DOMAIN pendingChunks
                THEN /\ DOMAIN fileCache' = DOMAIN fileCache \ ownChunks
                     /\ \A p \in DOMAIN fileCache' : fileCache'[p] = fileCache[p]
                     /\ pendingChunks' = MapDelete(pendingChunks, id)
                ELSE /\ fileCache' = fileCache
                     /\ pendingChunks' = pendingChunks
    ]_vars

\* the record of caller c's operation holds c's total, counts c's recorded
\* chunk writes and holds, for each index, the result of c's write of that
\* chunk
OwnRecord(c) ==
  LET call == calls[c]
  IN  call.operationId \in DOMAIN pendingChunks =>
        LET operation == pendingChunks[call.operationId]
        IN  /\ operation.total = call.total
            /\ redeliveries = 0 => operation.completed = Len(operation.chunks)
            /\ \A k \in 1..Len(operation.chunks) :
                 LET index  == operation.chunks[k].key
                     result == operation.chunks[k].value
                 IN  /\ index \in 0..call.i
                     /\ result.path = getChunkPath(call.path, index)
                     /\ result.size = Length(call.chunks[index + 1])

\* C20: when both callers run chunked writes, each operation's record
\* reflects only its own chunk writes, whatever the interleaving, and an
\* operation that has settled has put its own content under its own
\* path (Spec)
C20_ConcurrentWritesIndependent ==
  (\A c \in Callers : Chunked(c)) =>
    \A c \in Callers :
      /\ OwnRecord(c)
      /\ (Settled(c) /\ \A d \in Callers \ {c} : calls[d].path # calls[c].path)
           => /\ calls[c].path \in DOMAIN fileCache
              /\ fileCache[calls[c].path].content = calls[c].content

\* C21: a withRetry call that is handed a raised cancellation signal makes no
\* attempt: it invokes the operation not once, and ends by throwing (SpecRetry)
C21_CancelledCallMakesNoAttempt ==
  "cancelled" \in DOMAIN rt.context =>
    /\ rt.invocations = 0
    /\ rt.pc \in {"ready", "thrown"}

\* C22: whatever makes withRetry throw, the error it throws is a WorkerError
\* that carries the message of the operation's last error (as its message
\* or, after the last attempt, at the end of it), every entry of the context
\* handed to withRetry, and the time of the throw (SpecRetry)
C22_WrappedFailure ==
  rt.pc = "thrown" =>
    LET thrown   == rt.result
        original == rt.lastError.message
        n        == Len(thrown.message)
    IN  /\ thrown.class = "WorkerError"
        /\ n >= Len(original)
        /\ SubSeq(thrown.message, n - Len(original) + 1, n) = original
        /\ \A f \in DOMAIN rt.context :
             f \in DOMAIN thrown.context /\ thrown.context[f] = rt.context[f]
        /\ "timestamp" \in DOMAIN thrown
        /\ thrown.timestamp = now

\* a plain error with a server status has used up two attempts
C22_Witness ==
  /\ rt.pc = "thrown"
  /\ rt.handler.maxRetries = 2
  /\ rt.lastError.class = "Error"
  /\ rt.lastError.message = <<"bad gateway">>
  /\ rt.result.class = "WorkerError"
  /\ rt.result.context = [operation |-> "writeChunk", finalAttempt |-> "true"]
  /\ rt.result.timestamp = 1000

\* C23: a ValidationError thrown by the operation reaches the caller of
\* withRetry as a ValidationError with the details it was made with (SpecRetry)
C23_PermanentErrorUnchanged ==
  (rt.pc = "thrown" /\ rt.lastError.class = "ValidationError") =>
    /\ rt.result.class = "ValidationError"
    /\ "details" \in DOMAIN rt.result
    /\ rt.result.details = rt.lastError.details
    /\ rt.result.message = rt.lastError.message

\* C30: when the operation of callWorker fails on a response with a status
\* of 500 or more and attempts are left, withRetry waits and tries
\* again (SpecRetry)
C30_ServerErrorResponseRetried ==
  (/\ rt.pc \in {"sleeping", "thrown"}
   /\ rt.lastError.class = "WorkerError"
   /\ rt.lastError.context.status >= 500
   /\ rt.attempt < rt.handler.maxRetries)
  => rt.pc = "sleeping"

\* the part size of a split: the least p with p * numChunks >= length
IsPartSize(p, length, numChunks) ==
  /\ p * numChunks >= length
  /\ p = 0 \/ (p - 1) * numChunks < length

\* C27: splitContent(content, numChunks) returns numChunks fragments;
\* with partSize = ceil(length / numChunks), fragment i is the content from
\* offset i * partSize up to min((i + 1) * partSize, length), empty when
\* i * partSize >= length; with numChunks = 1 the one fragment is the
\* content, empty or not (SpecFileManager)
C27_SplitOffsets ==
  fm.pc = "split" =>
    LET length   == Length(fm.content)
        partSize == (length + fm.numChunks - 1) \div fm.numChunks
    IN  /\ IsPartSize(partSize, length, fm.numChunks)
        /\ DOMAIN fm.fragments = 1..fm.numChunks
        /\ \A i \in 0..(fm.numChunks - 1) :
             LET from == IF i * partSize < length THEN i * partSize ELSE length
                 to   == IF (i + 1) * partSize < length THEN (i + 1) * partSize
                         ELSE length
             IN  /\ fm.fragments[i + 1] = StrTake(StrDrop(fm.content, from), to - from)
                 /\ Length(fm.fragments[i + 1]) = to - from
                 /\ i * partSize >= length => fm.fragments[i + 1] = <<>>
        /\ fm.numChunks = 1 => fm.fragments[1] = fm.content

\* 100001 code units in two runs split in 4: the second fragment spans both
\* runs and the last is one code unit shorter
C27_Witness ==
  /\ fm.pc = "split"
  /\ fm.numChunks = 4
  /\ fm.content = <<[ch |-> "a", n |-> 40001], [ch |-> "e2", n |-> 60000]>>
  /\ fm.fragments[2] = <<[ch |-> "a", n |-> 15000], [ch |-> "e2", n |-> 10001]>>
  /\ Length(fm.fragments[4]) = 24998

\* C28 as stated: every fragment of splitContent(content, numChunks) but the
\* last has length partSize = ceil(length / numChunks) (SpecFileManager)
C28_OnlyLastFragmentShorter ==
  fm.pc = "split" =>
    LET partSize == CeilDiv(Length(fm.content), fm.numChunks)
    IN  \A k \in 1..(fm.numChunks - 1) : Length(fm.fragments[k]) = partSize

\* C28 amended: no fragment is longer than partSize; every fragment that
\* ends at or before the end of the content has length partSize; a fragment
\* shorter than partSize is followed by empty fragments only (SpecFileManager)
C28_ShortFragmentsAtTheEnd ==
  fm.pc = "split" =>
    LET length   == Length(fm.content)
        partSize == (length + fm.numChunks - 1) \div fm.numChunks
    IN  /\ IsPartSize(partSize, length, fm.numChunks)
        /\ \A k \in 1..fm.numChunks :
             /\ Length(fm.fragments[k]) <= partSize
             /\ k * partSize <= length => Length(fm.fragments[k]) = partSize
             /\ (k < fm.numChunks /\ Length(fm.fragments[k]) < partSize)
                  => fm.fragments[k + 1] = <<>>

\* five code units split in 4: fragments of 2, 2, 1 and 0 code units
C28_Witness ==
  /\ fm.pc = "split"
  /\ fm.numChunks = 4
  /\ Length(fm.content) = 5
  /\ Length(fm.fragments[1]) = 2
  /\ Length(fm.fragments[2]) = 2
  /\ Length(fm.fragments[3]) = 1
  /\ fm.fragments[4] = <<>>

\* C24: the results a chunked write has gathered are, in order, the results
\* of writing chunk 0, 1, ... under getChunkPath(path, index), and a chunked
\* write that resolves returns them: total results, entry i for
\* chunk i (SpecApi)
C24_ReturnsChunkResults ==
  \A c \in Callers :
    Chunked(c) =>
      LET call == calls[c]
      IN  /\ Len(call.results) <= call.total
          /\ \A k \in 1..Len(call.results) :
               /\ call.results[k].path = getChunkPath(call.path, k - 1)
               /\ call.results[k].size = Length(call.chunks[k])
               /\ call.results[k].cached
          /\ call.pc = "resolved" =>
               /\ call.outcome = call.results
               /\ Len(call.outcome) = call.total

C24_Witness ==
  /\ calls["c1"].pc = "resolved"
  /\ calls["c1"].operationId = 1
  /\ calls["c1"].path = <<"data", "json">>
  /\ Len(calls["c1"].outcome) = 3
  /\ calls["c1"].outcome[1].path = <<"data", "part0", "json">>
  /\ calls["c1"].outcome[3].path = <<"data", "part2", "json">>
  /\ calls["c1"].outcome[3].size = 40000

\* C25: when finalize has gathered the recorded results of an operation and
\* concatenateChunks has run on them, it has completed without an error and
\* produced the chunk contents joined in index order, which is the content
\* that was written (Spec)
C25_ConcatenateInIndexOrder ==
  \A c \in Callers :
    calls[c].pc = "concatenate" =>
      /\ calls[c].awaited.ok
      /\ calls[c].awaited.value = calls[c].content

\* C26: after a chunked write has resolved, the cache entry of each of its
\* chunk paths carries {operationId, index, isChunk: true} with the index of
\* the path, and the entry at the original path carries
\* {operationId, isComplete: true, totalChunks: total} (SpecApi)
C26_MetadataAfterChunkedWrite ==
  \A c \in Callers :
    (Chunked(c) /\ calls[c].pc = "resolved") =>
      LET call == calls[c]
      IN  /\ \A i \in 0..(call.total - 1) :
               LET chunkPath == getChunkPath(call.path, i)
               IN  /\ chunkPath \in DOMAIN fileCache
                   /\ fileCache[chunkPath].metadata =
                        [operationId |-> call.operationId, index |-> i,
                         isChunk |-> TRUE]
          /\ call.path \in DOMAIN fileCache
          /\ fileCache[call.path].metadata =
               [operationId |-> call.operationId, isComplete |-> TRUE,
                totalChunks |-> call.total]

\* C29: between two attempts withRetry is suspended (an attempt that fails
\* ends in a return, a throw or the wait, never in the next attempt); while
\* it waits, a cache write, a status query and a writeContentInChunks call
\* can start, and each step they take completes the call or brings it to its
\* await and leaves the waiting call and its timer as they are (SpecBackoff)
C29_BackoffSuspendsOnlyItsCall ==
  [][/\ (rt.pc = "operation" /\ rt' # rt)
          => rt'.pc \in {"returned", "thrown", "sleeping"}
     /\ rt.pc = "sleeping"
          => /\ ENABLED WriteSingleFileCall(<<"notes">>, <<[ch |-> "a", n |-> 3]>>, <<>>)
             /\ ENABLED GetOperationStatusCall(1)
             /\ calls["c1"].pc = "idle" =>
                  ENABLED WriteContentInChunks("c1", <<"data", "json">>,
                                               <<[ch |-> "a", n |-> 3]>>)
             /\ calls["c1"].pc = "writeSingle" => ENABLED SingleFileWritten("c1")
             /\ (api' # api \/ calls' # calls)
                  => /\ rt' = rt
                     /\ now' = now
                     /\ api' # api => "result" \in DOMAIN api'
                     /\ calls' # calls => calls'["c1"].pc \in {"writeSingle", "resolved"}
    ]_vars

\* during the first wait of a call a cache write was made, a
\* writeContentInChunks call resolved and a status query returned
C29_Witness ==
  /\ rt.pc = "sleeping"
  /\ Len(rt.waits) = 1
  /\ rt.invocations = 1
  /\ <<"notes">> \in DOMAIN fileCache
  /\ calls["c1"].pc = "resolved"
  /\ calls["c1"].outcome.path = <<"data", "json">>
  /\ api.op = "getOperationStatus"
  /\ api.result = Null

\* C31: every fragment of a content that requires chunking, split in the
\* number of chunks its analysis gives, encodes to at most CHUNK_SIZE
\* bytes (SpecFileManager)
C31_FragmentsFitChunkSize ==
  fm.pc = "fragmented" =>
    \A k \in 1..Len(fm.fragments) : ByteLength(fm.fragments[k]) <= CHUNK_SIZE

\* C32: the chunk path of a path and an index is not the chunk path of any
\* other path and any index (SpecCache)
C32_ChunkPathsOfTargetsDiffer ==
  api.op = "getChunkPath" =>
    \A q \in ChunkPathInputs \ {api.path}, j \in 0..MaxNumChunks :
      getChunkPath(q, j) # api.result

\* C33: a chunked write is rejected only by an error thrown while a chunk
\* write completes or while the chunks are concatenated, and the rejecting
\* step changes no cache entry; no step of a chunked write before the write
\* of the merged content changes the cache entry at the original path, so a
\* write that fails before it leaves the target as it was (Spec)
C33_FailedWriteLeavesTarget ==
  [][\A c \in Callers :
       (calls'[c] # calls[c] /\ calls'[c].operationId # 0)
         => LET path == calls'[c].path
            IN  /\ calls'[c].pc = "rejected"
                     => /\ calls[c].pc \in {"writeChunk", "concatenate"}
                        /\ fileCache' = fileCache
                /\ calls'[c].pc # "finalWrite"
                     => /\ path \in DOMAIN fileCache' <=> path \in DOMAIN fileCache
                        /\ path \in DOMAIN fileCache => fileCache'[path] = fileCache[path]
    ]_vars

\* an unchunked write put its content under the path at time 0, a chunked
\* write to the same path started at time 1 and was rejected, and the path
\* still holds the entry of the first write
C33_Witness ==
  LET path == calls["c1"].path
  IN  /\ calls["c2"].pc = "resolved"
      /\ calls["c2"].operationId = 0
      /\ calls["c2"].path = path
      /\ calls["c1"].pc = "rejected"
      /\ calls["c1"].operationId # 0
      /\ calls["c1"].content # calls["c2"].content
      /\ getChunkPath(path, 0) \in DOMAIN fileCache
      /\ fileCache[getChunkPath(path, 0)].timestamp = 1
      /\ fileCache[getChunkPath(path, 0)].metadata.operationId = calls["c1"].operationId
      /\ path \in DOMAIN fileCache
      /\ fileCache[path] =
           [content |-> calls["c2"].content, timestamp |-> 0, metadata |-> <<>>]

\* C34: once a chunked write has settled, by returning or by throwing, the
\* operation table holds no record for the operation the call created (Spec)
C34_NoRecordAfterSettling ==
  \A c \in Callers :
    (Chunked(c) /\ Settled(c)) => calls[c].operationId \notin DOMAIN pendingChunks

\* C35: every record of the operation table has 0 <= completed <= total and
\* total >= 2, and the progress getOperationStatus reports for it lies
\* between 0 and 100 (Spec)
C35_CompletedWithinTotal ==
  \A id \in DOMAIN pendingChunks :
    /\ 0 <= pendingChunks[id].completed
    /\ pendingChunks[id].completed <= pendingChunks[id].total
    /\ pendingChunks[id].total >= 2
    /\ LET progress == getOperationStatus(pendingChunks, id).progress
       IN  /\ 0 <= progress.num
           /\ progress.num <= 100 * progress.den

\* C38: when both callers have made chunked writes of different contents to
\* the same path and both writes have settled, the cache entry at that path
\* holds the whole content of one of the two writes (Spec)
C38_ConcurrentWritesOneContent ==
  (/\ \A c \in Callers : Chunked(c) /\ Settled(c)
   /\ calls["c1"].path = calls["c2"].path
   /\ calls["c1"].content # calls["c2"].content)
    => /\ calls["c1"].path \in DOMAIN fileCache
       /\ fileCache[calls["c1"].path].content
            \in {calls["c1"].content, calls["c2"].content}

\* C36: whatever options the handler was constructed from, a withRetry call
\* that has settled has invoked the operation at least once and at most
\* maxRetries times, and if it resolved, it resolved with the value an
\* invocation of the operation returned (SpecRetry)
C36_InvocationsWithinMaxRetries ==
  rt.pc \in {"returned", "thrown"} =>
    /\ rt.invocations >= 1
    /\ rt.invocations <= rt.handler.maxRetries
    /\ rt.pc = "returned" =>
         /\ rt.opValue \in OperationValues
         /\ rt.result = rt.opValue

\* C37: when the operation threw a WorkerError that carries context entries,
\* the error withRetry throws for it still has each of those entries in its
\* context (SpecRetry)
C37_WorkerErrorContextKept ==
  (/\ rt.pc = "thrown"
   /\ rt.lastError.class = "WorkerError"
   /\ "context" \in DOMAIN rt.lastError)
    => \A f \in DOMAIN rt.lastError.context :
         /\ f \in DOMAIN rt.result.context
         /\ rt.result.context[f] = rt.lastError.context[f]

\* C39: after a write has settled, through FileManager.writeFile or through
\* ChunkManager.writeContentInChunks, on a manager that made no other write,
\* the cache entry at the path holds the content handed to the write,
\* whether the content needed chunking or not (SpecWriteFile)
C39_EntryPointsAgreeOnTarget ==
  /\ (api.op = "writeFile" /\ api.pc = "resolved")
       => /\ isCached(fileCache, api.path)
          /\ getCached(fileCache, api.path).content = api.content
  /\ Settled("c1")
       => /\ isCached(fileCache, calls["c1"].path)
          /\ getCached(fileCache, calls["c1"].path).content = calls["c1"].content

====
